---- MODULE Spec2Model ----
(***************************************************************************)
(* A model of sceptre's ConfigReader (src/sceptre/config_reader.py): the   *)
(* hierarchical read of YAML configuration, the deferred construction of   *)
(* plugin nodes, the version check, and the construction of stacks and     *)
(* environments from the configuration directory tree.                     *)
(*                                                                         *)
(* Strings are sequences of chunks (a chunk is a piece of text that is     *)
(* never split further here), so that endswith, os.path.split, str.strip   *)
(* and "/".join are computed rather than assumed.  Python objects live in  *)
(* a heap (a sequence of dicts and lists, addressed by index), so that     *)
(* aliasing, in-place mutation and copy.deepcopy are visible.              *)
(***************************************************************************)
EXTENDS Integers, Sequences, FiniteSets, TLC

VARIABLES
    fs,        \* the files on disk: absolute path |-> parsed document
    dirs,      \* the directories on disk (absolute paths)
    version,   \* sceptre.__version__
    heap,      \* the Python heap: address |-> dict or list object
    ret,       \* what the last call of the public API returned or raised
    reads      \* history: the calls of read() made by that call, in order

vars == <<fs, dirs, version, heap, ret, reads>>

(***************************************************************************)
(* Bounds of the model.                                                    *)
(***************************************************************************)
MaxDepth == 2        \* directories are nested 0..MaxDepth deep
TreeDepth == 1       \* ... and 0..TreeDepth deep where whole trees are built or versions constrained
MaxTick == 3         \* real time runs over the ticks 0..MaxTick
TicksPerMicro == 2   \* ticks of real time in one microsecond

(***************************************************************************)
(* Strings and paths.                                                      *)
(***************************************************************************)
SEP == "/"
CONFIG_YAML == <<"config", ".yaml">>
SCEPTRE_DIR == <<SEP, "proj">>

EndsWith(s, suffix) ==
    /\ Len(s) >= Len(suffix)
    /\ SubSeq(s, Len(s) - Len(suffix) + 1, Len(s)) = suffix

StartsWith(s, prefix) ==
    /\ Len(s) >= Len(prefix)
    /\ SubSeq(s, 1, Len(prefix)) = prefix

\* os.path.join(a, b)
join(a, b) ==
    IF b # <<>> /\ Head(b) = SEP THEN b
    ELSE IF a = <<>> \/ a[Len(a)] = SEP THEN a \o b
    ELSE a \o <<SEP>> \o b

LastSep(p) ==
    LET idx == {i \in 1..Len(p) : p[i] = SEP}
    IN IF idx = {} THEN 0 ELSE CHOOSE i \in idx : \A j \in idx : j <= i

RECURSIVE RStripSep(_)
RStripSep(s) ==
    IF s # <<>> /\ s[Len(s)] = SEP THEN RStripSep(SubSeq(s, 1, Len(s) - 1)) ELSE s

RECURSIVE LStripSep(_)
LStripSep(s) ==
    IF s # <<>> /\ Head(s) = SEP THEN LStripSep(Tail(s)) ELSE s

\* str.strip("/")
strip(s) == LStripSep(RStripSep(s))

\* os.path.split(p): <<head, tail>>
split(p) ==
    LET i == LastSep(p)
        head == SubSeq(p, 1, i)
        tail == SubSeq(p, i + 1, Len(p))
    IN <<IF RStripSep(head) = <<>> THEN head ELSE RStripSep(head), tail>>

\* os.path.splitext(p)[0]
splitext(p) ==
    IF /\ Len(p) >= 2
       /\ p[Len(p)] = ".yaml"
       /\ p[Len(p) - 1] # SEP
    THEN SubSeq(p, 1, Len(p) - 1)
    ELSE p

\* "/".join(parts)
RECURSIVE joinSep(_)
joinSep(parts) ==
    IF parts = <<>> THEN <<>>
    ELSE IF Len(parts) = 1 THEN parts[1]
    ELSE parts[1] \o <<SEP>> \o joinSep(Tail(parts))

config_folder == join(SCEPTRE_DIR, <<"config">>)

isfile(p) == p \in DOMAIN fs
isdir(p) == p \in dirs

(***************************************************************************)
(* Python values and the heap.  A value is a string (t = "s", its text in  *)
(* s), None, a functools.partial awaiting the config (t = "partial", its   *)
(* scalar argument in s), an object built by a plugin class (t = "node"),  *)
(* or a reference to a dict or list of the heap (t = "ref", address a).    *)
(***************************************************************************)
Str(chunks) == [t |-> "s", s |-> chunks, a |-> 0]
PyNone == [t |-> "none", s |-> <<>>, a |-> 0]
Partial(arg) == [t |-> "partial", s |-> <<arg>>, a |-> 0]
Node(arg, seen) == [t |-> "node", s |-> <<arg>> \o seen, a |-> 0]
Ref(addr) == [t |-> "ref", s |-> <<>>, a |-> addr]

Entry(k, v) == [key |-> k, val |-> v]
Dict(entries) == [t |-> "dict", e |-> entries]
List(values) == [t |-> "list", e |-> [i \in 1..Len(values) |-> Entry("", values[i])]]

Has(e, k) == \E i \in 1..Len(e) : e[i].key = k
Get(e, k) == e[CHOOSE i \in 1..Len(e) : e[i].key = k].val
GetOr(e, k, default) == IF Has(e, k) THEN Get(e, k) ELSE default
Keys(e) == [i \in 1..Len(e) |-> e[i].key]

\* d[k] = v
SetItem(e, k, v) ==
    IF Has(e, k)
    THEN [i \in 1..Len(e) |-> IF e[i].key = k THEN Entry(k, v) ELSE e[i]]
    ELSE Append(e, Entry(k, v))

\* dict.update written as setdefault: a key already there keeps its value
RECURSIVE update_keeping(_, _)
update_keeping(e, other) ==
    IF other = <<>> THEN e
    ELSE update_keeping(IF Has(e, Head(other).key) THEN e
                        ELSE SetItem(e, Head(other).key, Head(other).val),
                        Tail(other))

\* dict.update(other)
RECURSIVE update(_, _)
update(e, other) ==
    IF other = <<>> THEN e
    ELSE update(SetItem(e, Head(other).key, Head(other).val), Tail(other))

Alloc(h, obj) == [heap |-> Append(h, obj), val |-> Ref(Len(h) + 1)]

(***************************************************************************)
(* A document is what yaml.safe_load builds from one rendered file: a      *)
(* sequence of objects whose references are local (1 is the top-level      *)
(* map); the empty document (an empty file) loads as None.  Loading        *)
(* allocates the objects afresh.                                           *)
(***************************************************************************)
Relocate(v, off) == IF v.t = "ref" THEN Ref(v.a + off) ELSE v

safe_load(h, doc) ==
    LET off == Len(h)
        objs == [i \in 1..Len(doc) |->
                    [t |-> doc[i].t,
                     e |-> [j \in 1..Len(doc[i].e) |->
                              Entry(doc[i].e[j].key, Relocate(doc[i].e[j].val, off))]]]
    IN [heap |-> h \o objs,
        val |-> IF doc = <<>> THEN PyNone ELSE Ref(off + 1)]

\* ConfigReader._read
_read(h, directory_path, basename) ==
    LET dp == join(config_folder, directory_path)
    IN IF isfile(join(dp, basename))
       THEN safe_load(h, fs[join(dp, basename)])
       ELSE [heap |-> h, val |-> PyNone]

\* x or {}
OrEmptyDict(r) ==
    IF r.val.t = "ref" /\ r.heap[r.val.a].e # <<>> THEN r ELSE Alloc(r.heap, Dict(<<>>))

\* _recursive_read that stops climbing at a directory without the file
RECURSIVE _recursive_read_until_gap(_, _, _)
_recursive_read_until_gap(h, directory_path, basename) ==
    IF directory_path = <<>>
       \/ ~isfile(join(join(config_folder, directory_path), basename))
    THEN OrEmptyDict(_read(h, directory_path, basename))
    ELSE LET r == _recursive_read_until_gap(h, split(directory_path)[1], basename)
             child == OrEmptyDict(_read(r.heap, directory_path, basename))
         IN [heap |-> [child.heap EXCEPT
                          ![r.val.a].e = update(@, child.heap[child.val.a].e)],
             val |-> r.val]

\* ConfigReader._recursive_read
RECURSIVE _recursive_read(_, _, _)
_recursive_read(h, directory_path, basename) ==
    LET parent_directory == split(directory_path)[1]
    IN IF directory_path = <<>>
       THEN OrEmptyDict(_read(h, directory_path, basename))
       ELSE LET r == _recursive_read(h, parent_directory, basename)
                child == OrEmptyDict(_read(r.heap, directory_path, basename))
                config == r.val.a
            IN [heap |-> [child.heap EXCEPT
                             ![config].e = update(@, child.heap[child.val.a].e)],
                val |-> r.val]

(***************************************************************************)
(* Plugin classes (hooks and resolvers) are loaded from entry points.  The *)
(* class modelled here reads, when it is constructed with (argument,       *)
(* config), the config key its argument names, and keeps what it saw.      *)
(***************************************************************************)
Observed(h, config, arg) ==
    LET e == h[config].e
    IN IF ~Has(e, arg) THEN <<"<missing>">>
       ELSE IF Get(e, arg).t = "s" THEN Get(e, arg).s
       ELSE <<"<" \o Get(e, arg).t \o ">">>

node_class(arg, h, config) == Node(arg, Observed(h, config, arg))

\* ConfigReader.construct_nodes, from index i of attr on; st = [heap, log]
RECURSIVE construct_nodes_from(_, _, _, _)
construct_nodes_from(st, attr, config, i) ==
    LET obj == st.heap[attr]
    IN IF i > Len(obj.e) THEN st
       ELSE LET value == obj.e[i].val
            IN IF value.t = "partial"
               THEN LET built == node_class(value.s[1], st.heap, config)
                        call == [at |-> attr, idx |-> i, arg |-> value.s[1],
                                 keys |-> Keys(st.heap[config].e), result |-> built]
                    IN construct_nodes_from(
                           [heap |-> [st.heap EXCEPT ![attr].e[i].val = built],
                            log |-> Append(st.log, call)],
                           attr, config, i + 1)
               ELSE IF value.t = "ref"
               THEN construct_nodes_from(
                        construct_nodes_from(st, value.a, config, 1),
                        attr, config, i + 1)
               ELSE construct_nodes_from(st, attr, config, i + 1)

\* construct_nodes that visits the top level of attr only
RECURSIVE construct_top_from(_, _, _, _)
construct_top_from(st, attr, config, i) ==
    IF i > Len(st.heap[attr].e) THEN st
    ELSE IF st.heap[attr].e[i].val.t = "partial"
    THEN construct_top_from(
             [heap |-> [st.heap EXCEPT ![attr].e[i].val =
                           node_class(st.heap[attr].e[i].val.s[1], st.heap, config)],
              log |-> Append(st.log,
                        [at |-> attr, idx |-> i, arg |-> st.heap[attr].e[i].val.s[1],
                         keys |-> Keys(st.heap[config].e),
                         result |-> node_class(st.heap[attr].e[i].val.s[1],
                                               st.heap, config)])],
             attr, config, i + 1)
    ELSE construct_top_from(st, attr, config, i + 1)

construct_nodes_top_level(h, attr, config) ==
    construct_top_from([heap |-> h, log |-> <<>>], attr, config, 1)

construct_nodes(h, attr, config) ==
    construct_nodes_from([heap |-> h, log |-> <<>>], attr, config, 1)

(***************************************************************************)
(* packaging.version.Version and packaging.specifiers.SpecifierSet, for    *)
(* release versions "N.N.N" and the comparison operators.                  *)
(***************************************************************************)
Digit(c) ==
    CASE c = "0" -> 0 [] c = "1" -> 1 [] c = "2" -> 2 [] c = "3" -> 3
      [] c = "4" -> 4 [] c = "5" -> 5 [] c = "6" -> 6 [] c = "7" -> 7
      [] c = "8" -> 8 [] c = "9" -> 9

\* str.split(sep)
RECURSIVE SplitOn(_, _)
SplitOn(s, sep) ==
    LET idx == {i \in 1..Len(s) : s[i] = sep}
    IN IF idx = {} THEN <<s>>
       ELSE LET i == CHOOSE j \in idx : \A k \in idx : j <= k
            IN <<SubSeq(s, 1, i - 1)>> \o SplitOn(SubSeq(s, i + 1, Len(s)), sep)

\* Version(text).release
Version(text) ==
    LET parts == SplitOn(text, ".")
    IN [i \in 1..Len(parts) |-> Digit(parts[i][1])]

\* the comparison of two releases, the shorter one padded with zeros
RECURSIVE CompareRelease(_, _)
CompareRelease(v, w) ==
    IF v = <<>> /\ w = <<>> THEN 0
    ELSE LET a == IF v = <<>> THEN 0 ELSE Head(v)
             b == IF w = <<>> THEN 0 ELSE Head(w)
         IN IF a < b THEN -1
            ELSE IF a > b THEN 1
            ELSE CompareRelease(IF v = <<>> THEN v ELSE Tail(v),
                                IF w = <<>> THEN w ELSE Tail(w))

\* Version(v) in Specifier(clause)
SpecifierContains(clause, v) ==
    LET op == Head(clause)
        c == CompareRelease(v, Version(Tail(clause)))
    IN CASE op = "==" -> c = 0
         [] op = "!=" -> c # 0
         [] op = ">=" -> c >= 0
         [] op = "<=" -> c <= 0
         [] op = ">" -> c > 0
         [] op = "<" -> c < 0

\* Version(v) in SpecifierSet(text)
SpecifierSetContains(text, v) ==
    LET clauses == SplitOn(text, ",")
    IN \A i \in 1..Len(clauses) : SpecifierContains(clauses[i], v)

\* ConfigReader._check_version: what it raises, or "ok"
_check_version(h, config) ==
    LET e == h[config].e
    IN IF Has(e, "require_version")
       THEN LET require_version == Get(e, "require_version")
            IN IF require_version.t # "s" THEN "TypeError"
               ELSE IF ~SpecifierSetContains(require_version.s, Version(version))
               THEN "VersionIncompatibleError"
               ELSE "ok"
       ELSE "ok"

\* the object in which the default argument of read lives, and that of
\* _construct_stack: both are created once, when the class is defined
READ_DEFAULT == 1
STACK_DEFAULT == 2
Persistent(h) == SubSeq(h, 1, STACK_DEFAULT)

(***************************************************************************)
(* ConfigReader.read(rel_path, base_config), with base_config the address  *)
(* of the dict passed (or of the default argument's dict).  The result     *)
(* carries the heap, what was raised ("ok" when the config is returned),   *)
(* the address of config, the plugin constructions made, the heap as it    *)
(* was when the merge ended and construct_nodes began, and the entries     *)
(* base_config had when read was called.                                   *)
(***************************************************************************)
\* config.update(other), config and other dicts of the heap
update_at(h, config, other) == [h EXCEPT ![config].e = update(@, h[other].e)]

\* the version check made on base_config, not on the merged config
read_checked_seed(cn, merged, config, rel_path, base_config, base_before) ==
    [heap |-> cn.heap, status |-> _check_version(cn.heap, base_config),
     config |-> config, log |-> cn.log, merged |-> merged,
     rel_path |-> rel_path, base_config |-> base_config,
     base_before |-> base_before]

\* lines 165 to 168: the version check and the return
read_checked(cn, merged, config, rel_path, base_config, base_before) ==
    [heap |-> cn.heap, status |-> _check_version(cn.heap, config),
     config |-> config, log |-> cn.log, merged |-> merged,
     rel_path |-> rel_path, base_config |-> base_config,
     base_before |-> base_before]

\* the plugin nodes constructed with base_config, not with the merged config
read_merged_seed(merged, config, rel_path, base_config, base_before) ==
    read_checked(construct_nodes(merged, config, base_config), merged, config,
                 rel_path, base_config, base_before)

\* line 163: the plugin nodes of the merged config are constructed
read_merged(merged, config, rel_path, base_config, base_before) ==
    read_checked(construct_nodes(merged, config, config), merged, config,
                 rel_path, base_config, base_before)

\* line 162: the hierarchy is merged into config
read_hierarchy(rr, config, rel_path, base_config, base_before) ==
    read_merged(update_at(rr.heap, config, rr.val.a), config,
                rel_path, base_config, base_before)

\* lines 153 to 160, h1 the heap once base_config is merged into config
read_files(h1, config, rel_path, base_config, base_before) ==
    IF /\ ~isfile(join(config_folder, rel_path))
       /\ ~EndsWith(rel_path, CONFIG_YAML)
    THEN [heap |-> h1, status |-> "Exception", config |-> config,
          log |-> <<>>, merged |-> h1,
          rel_path |-> rel_path, base_config |-> base_config,
          base_before |-> base_before]
    ELSE read_hierarchy(_recursive_read(h1, split(rel_path)[1], split(rel_path)[2]),
                        config, rel_path, base_config, base_before)

\* read that merges into base_config itself, without a dict of its own
read_in_place(h, rel_path, base_config) ==
    read_files(
        [h EXCEPT ![base_config].e =
            update(@, <<Entry("sceptre_dir", Str(SCEPTRE_DIR)),
                        Entry("environment_path", Str(split(rel_path)[1]))>>)],
        base_config, rel_path, base_config, h[base_config].e)

read(h, rel_path, base_config) ==
    read_files(
        update_at(Append(h, Dict(<<Entry("sceptre_dir", Str(SCEPTRE_DIR)),
                                   Entry("environment_path", Str(split(rel_path)[1]))>>)),
                  Len(h) + 1, base_config),
        Len(h) + 1, rel_path, base_config, h[base_config].e)

(***************************************************************************)
(* Stacks.                                                                 *)
(***************************************************************************)
\* str.replace(old, new), chunk by chunk
replace(s, old, new) == [i \in 1..Len(s) |-> IF s[i] = old THEN new ELSE s[i]]

\* sceptre.helpers.get_external_stack_name
get_external_stack_name(project_code, stack_name) ==
    project_code \o <<"-">> \o replace(stack_name, SEP, "-")

\* a clock read to a coarser unit than the microsecond
utcnow_coarse(now) == now \div (2 * TicksPerMicro)

\* datetime.datetime.utcnow(), read at tick now: the microseconds elapsed
utcnow(now) == now \div TicksPerMicro

\* strftime("%Y-%m-%d-%H-%M-%S-%fZ")
strftime(microseconds) == ToString(microseconds) \o "Z"

\* config.get(key, default), the default a dict or list made for this call
GetOrNew(h, e, key, obj) ==
    IF Has(e, key) THEN [heap |-> h, val |-> Get(e, key)] ELSE Alloc(h, obj)

NoStack == [built |-> FALSE]

\* lines 249 to 252
external_name(e, stack_name) ==
    GetOr(e, "stack_name",
          Str(get_external_stack_name(Get(e, "project_code").s, stack_name)))

\* lines 259 to 265
template_key(name, now) ==
    joinSep(<<name, <<strftime(utcnow(now)) \o ".json">>>>)

\* lines 259 to 269
bucket_key(e, name, now) ==
    IF Has(e, "template_key_prefix")
    THEN joinSep(<<strip(Get(e, "template_key_prefix").s), template_key(name, now)>>)
    ELSE template_key(name, now)

\* lines 277 to 288: the Stack(...) call; parameters and tags as looked up
Stack(parameters, tags, e, rel_path, stack_name, name, now) ==
    [heap |-> parameters.heap, status |-> "ok",
     stack |-> [built |-> TRUE,
                rel_path |-> rel_path,
                name |-> stack_name,
                external_name |-> name,
                template_path |-> join(SCEPTRE_DIR, Get(e, "template_path").s),
                has_s3 |-> Has(e, "template_bucket_name"),
                bucket_key |-> IF Has(e, "template_bucket_name")
                               THEN bucket_key(e, name.s, now) ELSE <<>>,
                at |-> now,
                region |-> Get(e, "region"),
                tags |-> tags.val,
                parameters |-> parameters.val]]

stack_with_tags(tags, e, rel_path, stack_name, name, now) ==
    Stack(GetOrNew(tags.heap, e, "parameters", Dict(<<>>)), tags, e,
          rel_path, stack_name, name, now)

\* lines 248 to 288, e the entries of the config read
stack_of_config(h, e, rel_path, stack_name, now) ==
    IF ~Has(e, "project_code") \/ ~Has(e, "template_path") \/ ~Has(e, "region")
    THEN [heap |-> h, status |-> "KeyError", stack |-> NoStack]
    ELSE IF Has(e, "template_bucket_name") /\ external_name(e, stack_name).t # "s"
    THEN [heap |-> h, status |-> "TypeError", stack |-> NoStack]
    ELSE stack_with_tags(GetOrNew(h, e, "stack_tags", Dict(<<>>)), e,
                         rel_path, stack_name, external_name(e, stack_name), now)

WithReads(s, reads_made) ==
    [heap |-> s.heap, status |-> s.status, stack |-> s.stack, reads |-> reads_made]

\* lines 248 to 288, r what read returned or raised
stack_of_read(r, rel_path, now) ==
    IF r.status # "ok"
    THEN [heap |-> r.heap, status |-> r.status, stack |-> NoStack, reads |-> <<r>>]
    ELSE WithReads(stack_of_config(r.heap, r.heap[r.config].e, rel_path,
                                   splitext(rel_path), now),
                   <<r>>)

\* ConfigReader._construct_stack: what it returns (None: built = FALSE) or raises
_construct_stack(h, rel_path, config, now) ==
    IF split(rel_path)[2] # CONFIG_YAML
    THEN stack_of_read(read(h, rel_path, config), rel_path, now)
    ELSE [heap |-> h, status |-> "ok", stack |-> NoStack, reads |-> <<>>]

\* line 293, environment_config what read returned or raised
stack_in_environment(environment_config, rel_path, now) ==
    IF environment_config.status # "ok"
    THEN [heap |-> environment_config.heap, status |-> environment_config.status,
          stack |-> NoStack, reads |-> <<environment_config>>]
    ELSE [_construct_stack(environment_config.heap, rel_path,
                           environment_config.config, now)
             EXCEPT !.reads = <<environment_config>> \o @]

\* ConfigReader.construct_stack
construct_stack(h, rel_path, now) ==
    stack_in_environment(read(h, join(split(rel_path)[1], CONFIG_YAML), READ_DEFAULT),
                         rel_path, now)

(***************************************************************************)
(* Environments.                                                           *)
(***************************************************************************)
\* copy.copy(v): the dict or list itself is copied, what it holds is shared
shallow_copy(h, v) ==
    IF v.t # "ref" THEN [heap |-> h, val |-> v] ELSE Alloc(h, h[v.a])

\* copy.deepcopy(v): every dict and list reachable from v is copied
RECURSIVE deepcopy(_, _), deepcopy_entries(_, _, _)
deepcopy_rest(first, e, acc) ==
    deepcopy_entries(first.heap, Tail(e), Append(acc, Entry(Head(e).key, first.val)))

deepcopy_entries(h, e, acc) ==
    IF e = <<>> THEN [heap |-> h, e |-> acc]
    ELSE deepcopy_rest(deepcopy(h, Head(e).val), e, acc)

deepcopy_object(copied, t) == Alloc(copied.heap, [t |-> t, e |-> copied.e])

deepcopy(h, v) ==
    IF v.t # "ref" THEN [heap |-> h, val |-> v]
    ELSE deepcopy_object(deepcopy_entries(h, h[v.a].e, <<>>), h[v.a].t)

\* a name that glob's "*" does not match: it starts with a dot
DotChunks == {".hidden", ".yaml"}
Hidden(name) == name # <<>> /\ Head(name) \in DotChunks

\* glob(os.path.join(directory, "*")): the set of matches
glob(directory) ==
    {p \in DOMAIN fs \union dirs :
        /\ p # RStripSep(directory)
        /\ split(p)[1] = RStripSep(directory)
        /\ ~Hidden(split(p)[2])}

\* os.path.relpath(item, start), item below start
relpath(item, start) == SubSeq(item, Len(start) + 2, Len(item))

\* the order in which the file system lists names: by rank, up or down
ListingRank(name) ==
    CASE name = CONFIG_YAML -> 1
      [] name = <<"vpc", ".yaml">> -> 2
      [] name = <<"db", ".yaml">> -> 3
      [] name = <<"app", "config", ".yaml">> -> 4
      [] OTHER -> 5

FirstListed(items, order) ==
    CHOOSE p \in items :
        \A q \in items :
            IF order = "up"
            THEN ListingRank(split(p)[2]) <= ListingRank(split(q)[2])
            ELSE ListingRank(split(p)[2]) >= ListingRank(split(q)[2])

RECURSIVE Listing(_, _, _)
Listing(items, order, acc) ==
    IF items = {} THEN acc
    ELSE Listing(items \ {FirstListed(items, order)}, order,
                 Append(acc, FirstListed(items, order)))

NewEnvironment(path) == [path |-> path, environments |-> <<>>, stacks |-> <<>>]

\* ConfigReader.construct_environment; st = [heap, status, environment,
\* reads, now], and children the items still to visit, in listing order
RECURSIVE construct_environment(_, _, _, _), construct_children(_, _, _, _)

\* lines 312 to 314
append_environment(st, child) ==
    [heap |-> child.heap, status |-> child.status,
     environment |-> [st.environment EXCEPT
                         !.environments = Append(@, child.environment)],
     reads |-> st.reads \o child.reads, now |-> child.now]

\* line 319
append_stack(st, s) ==
    [heap |-> s.heap, status |-> s.status,
     environment |-> [st.environment EXCEPT !.stacks = Append(@, s.stack)],
     reads |-> st.reads \o s.reads, now |-> st.now + 1]

\* lines 316 to 318
stack_of_copy(copy, rel_path, now) ==
    _construct_stack(copy.heap, rel_path, copy.val.a, now)

\* lines 311 to 319: one item of paths
construct_child(st, abs_path, rel_path, environment_config, order) ==
    IF isdir(abs_path)
    THEN append_environment(st, construct_environment(st.heap, rel_path, order, st.now))
    ELSE IF isfile(abs_path)
    THEN append_stack(st, stack_of_copy(deepcopy(st.heap, Ref(environment_config)),
                                        rel_path, st.now))
    ELSE st

construct_children(st, children, environment_config, order) ==
    IF children = <<>> \/ st.status # "ok" THEN st
    ELSE construct_children(
             construct_child(st, Head(children),
                             relpath(Head(children), config_folder),
                             environment_config, order),
             Tail(children), environment_config, order)

\* lines 299 to 308
paths(rel_path) ==
    {item \in glob(join(join(SCEPTRE_DIR, <<"config">>), rel_path)) :
        ~EndsWith(item, CONFIG_YAML)}

\* lines 297 to 321, environment_config what read returned or raised
environment_of(environment_config, rel_path, order, now) ==
    IF environment_config.status # "ok"
    THEN [heap |-> environment_config.heap, status |-> environment_config.status,
          environment |-> NewEnvironment(rel_path),
          reads |-> <<environment_config>>, now |-> now]
    ELSE construct_children(
             [heap |-> environment_config.heap, status |-> "ok",
              environment |-> NewEnvironment(rel_path),
              reads |-> <<environment_config>>, now |-> now],
             Listing(paths(rel_path), order, <<>>),
             environment_config.config, order)

construct_environment(h, rel_path, order, now) ==
    environment_of(read(h, join(rel_path, CONFIG_YAML), READ_DEFAULT),
                   rel_path, order, now)

(***************************************************************************)
(* The configuration directory: a chain of nested directories              *)
(* config/d1/d2/..., each of which may hold config.yaml and stack files.   *)
(***************************************************************************)
VPC_YAML == <<"vpc", ".yaml">>
DB_YAML == <<"db", ".yaml">>
APPCONFIG_YAML == <<"app", "config", ".yaml">>
HIDDEN_YAML == <<".hidden", ".yaml">>

Seg(i) == "d" \o ToString(i)
DirRel(d) == joinSep([i \in 1..d |-> <<Seg(i)>>])
RelPath(d, base) == join(DirRel(d), base)
FilePath(d, base) == join(config_folder, RelPath(d, base))
DirsTo(depth) == {RStripSep(join(config_folder, DirRel(d))) : d \in 0..depth}

\* the text a file gives a key: it names the key, the directory and the file
ValAt(key, d, base) == Str(<<key, "@", Seg(d)>> \o base)

RequiredKeys ==
    <<Entry("project_code", Str(<<"prj">>)),
      Entry("region", Str(<<"eu-west-1">>)),
      Entry("template_path", Str(<<"templates", SEP, "t.json">>))>>

TOOL_VERSION == <<"1", ".", "5", ".", "0">>

\* the files of a project: each file f of files has the shape shape[f]
\* and holds the document doc[f]
MakeFs(files, shape, doc) ==
    LET present == {f \in files : shape[f] # "absent"}
        files_present == {FilePath(f[1], f[2]) : f \in present}
    IN [p \in files_present |->
           doc[CHOOSE g \in present : FilePath(g[1], g[2]) = p]]

\* the root config.yaml carries the keys every stack needs
WithRequired(d, base, entries) ==
    IF d = 0 /\ base = CONFIG_YAML THEN RequiredKeys \o entries ELSE entries

(***************************************************************************)
(* Initial states: projects whose files define a key K at several levels,  *)
(* and a plugin node P that reads K.                                       *)
(***************************************************************************)
MergeDoc(shape, d, base) ==
    CASE shape = "empty" -> <<>>
      [] shape = "K" ->
            <<Dict(WithRequired(d, base, <<Entry("K", ValAt("K", d, base))>>))>>
      [] shape = "KP" ->
            <<Dict(WithRequired(d, base, <<Entry("P", Partial("K")),
                                           Entry("K", ValAt("K", d, base))>>))>>

MergeFiles == (0..MaxDepth) \X {CONFIG_YAML, VPC_YAML}

\* config.yaml is written at the root and in the first directory only
MergeShapes(f) ==
    IF f[2] = VPC_YAML THEN {"absent", "empty", "K"}
    ELSE IF f[1] = 0 THEN {"absent", "K", "KP"}
    ELSE IF f[1] = 1 THEN {"absent", "K"}
    ELSE {"absent"}

InitMerge ==
    /\ \E shape \in [MergeFiles -> {"absent", "empty", "K", "KP"}] :
          /\ \A f \in MergeFiles : shape[f] \in MergeShapes(f)
          /\ fs = MakeFs(MergeFiles, shape,
                         [f \in MergeFiles |->
                             IF shape[f] = "absent" THEN <<>>
                             ELSE MergeDoc(shape[f], f[1], f[2])])
    /\ dirs = DirsTo(MaxDepth)
    /\ version = TOOL_VERSION

(***************************************************************************)
(* Initial states: projects whose files nest plugin nodes in maps and      *)
(* lists.                                                                  *)
(***************************************************************************)
NestedDoc(shape, d, base) ==
    CASE shape = "K" ->
            <<Dict(WithRequired(d, base, <<Entry("K", ValAt("K", d, base))>>))>>
      [] shape = "N" ->
            <<Dict(WithRequired(d, base,
                       <<Entry("P", Partial("K")), Entry("L", Ref(2)),
                         Entry("K", ValAt("K", d, base))>>)),
              List(<<Partial("K"), Ref(3), Ref(4), Str(<<"x">>)>>),
              Dict(<<Entry("M", Partial("L")), Entry("Q", Str(<<"y">>))>>),
              List(<<Partial("Q")>>)>>

NestedFiles == {<<0, CONFIG_YAML>>, <<0, VPC_YAML>>, <<1, VPC_YAML>>}

InitNested ==
    /\ \E shape \in [NestedFiles -> {"absent", "K", "N"}] :
          fs = MakeFs(NestedFiles, shape,
                      [f \in NestedFiles |->
                          IF shape[f] = "absent" THEN <<>>
                          ELSE NestedDoc(shape[f], f[1], f[2])])
    /\ dirs = DirsTo(MaxDepth)
    /\ version = TOOL_VERSION

(***************************************************************************)
(* Initial states: projects whose files constrain the version.             *)
(***************************************************************************)
VersionDoc(shape, d, base) ==
    CASE shape = "plain" ->
            <<Dict(WithRequired(d, base, <<Entry("K", ValAt("K", d, base))>>))>>
      [] shape = "range" ->
            <<Dict(WithRequired(d, base,
                <<Entry("require_version",
                        Str(<<">=", "1", ".", "0", ",", "<", "2", ".", "0">>))>>))>>
      [] shape = "exact" ->
            <<Dict(WithRequired(d, base,
                <<Entry("require_version", Str(<<"==", "1", ".", "2", ".", "3">>))>>))>>

VersionFiles == (0..TreeDepth) \X {CONFIG_YAML, VPC_YAML}

VersionShapes(f) ==
    IF f[2] = VPC_YAML THEN {"absent", "range", "exact"}
    ELSE IF f[1] = 0 THEN {"plain", "range", "exact"}
    ELSE {"absent", "exact"}

InitVersion ==
    /\ \E shape \in [VersionFiles -> {"absent", "plain", "range", "exact"}] :
          /\ \A f \in VersionFiles : shape[f] \in VersionShapes(f)
          /\ fs = MakeFs(VersionFiles, shape,
                         [f \in VersionFiles |->
                             IF shape[f] = "absent" THEN <<>>
                             ELSE VersionDoc(shape[f], f[1], f[2])])
    /\ dirs = DirsTo(TreeDepth)
    /\ version = TOOL_VERSION

(***************************************************************************)
(* Initial states: projects with several stack files in a directory, the   *)
(* parameters of the stacks inherited, their own, or left out.             *)
(***************************************************************************)
\* shape: <<the layout of the directory, where parameters are defined>>
TreeDoc(shape, d, base) ==
    IF (base = CONFIG_YAML /\ d = 0 /\ shape[2] = "inherited")
       \/ (base # CONFIG_YAML /\ shape[2] = "own")
    THEN <<Dict(WithRequired(d, base, <<Entry("K", ValAt("K", d, base)),
                                        Entry("parameters", Ref(2))>>)),
           Dict(<<Entry("Size", ValAt("Size", d, base)), Entry("Zones", Ref(3))>>),
           List(<<Str(<<"a">>), Str(<<"b">>)>>)>>
    ELSE <<Dict(WithRequired(d, base, <<Entry("K", ValAt("K", d, base))>>))>>

Layouts == {"cfg", "one", "two", "odd"}

LayoutFiles(layout, d) ==
    CASE layout = "cfg" -> {CONFIG_YAML}
      [] layout = "one" -> {CONFIG_YAML, VPC_YAML}
      [] layout = "two" -> {CONFIG_YAML, VPC_YAML, DB_YAML}
      [] layout = "odd" -> (IF d = 0 THEN {CONFIG_YAML} ELSE {})
                             \union {VPC_YAML, APPCONFIG_YAML, HIDDEN_YAML}

TreeFiles == (0..TreeDepth) \X {CONFIG_YAML, VPC_YAML, DB_YAML, APPCONFIG_YAML, HIDDEN_YAML}

TreeShapes(layout) ==
    [f \in TreeFiles |->
        IF f[2] \in LayoutFiles(layout[f[1]], f[1]) THEN "present" ELSE "absent"]

TreeDocs(layout, source) ==
    [f \in TreeFiles |-> TreeDoc(<<layout[f[1]], source>>, f[1], f[2])]

InitTree ==
    /\ \E layout \in [0..TreeDepth -> Layouts],
          source \in {"inherited", "own", "default"} :
          fs = MakeFs(TreeFiles, TreeShapes(layout), TreeDocs(layout, source))
    /\ dirs = DirsTo(TreeDepth)
    /\ version = TOOL_VERSION

(***************************************************************************)
(* Initial states: projects that upload their templates to a bucket.       *)
(***************************************************************************)
KeyPrefixes == {<<>>, <<SEP>>, <<"p">>, <<SEP, "p", SEP>>, <<"p", SEP, "q">>}
NoPrefix == <<"<none>">>

\* shape of config.yaml: <<whether a bucket is configured, the prefix or "none">>
KeyDoc(shape, d, base) ==
    IF base = CONFIG_YAML
    THEN <<Dict(RequiredKeys
                \o (IF shape[1] THEN <<Entry("template_bucket_name", Str(<<"bucket">>))>>
                    ELSE <<>>)
                \o (IF shape[2] = NoPrefix THEN <<>>
                    ELSE <<Entry("template_key_prefix", Str(shape[2]))>>))>>
    ELSE IF shape = <<"named">>
    THEN <<Dict(<<Entry("stack_name", Str(<<"custom">>))>>)>>
    ELSE <<Dict(<<Entry("K", ValAt("K", d, base))>>)>>

KeyFiles == {<<0, CONFIG_YAML>>, <<0, VPC_YAML>>, <<1, VPC_YAML>>}

KeyStacks == KeyFiles \ {<<0, CONFIG_YAML>>}

KeyShapes(stack) ==
    [f \in KeyFiles |-> IF f \in KeyStacks THEN stack[f] ELSE "present"]

KeyDocs(bucket, prefix, stack) ==
    [f \in KeyFiles |->
        KeyDoc(IF f \in KeyStacks THEN <<stack[f]>> ELSE <<bucket, prefix>>, f[1], f[2])]

InitKey ==
    /\ \E bucket \in BOOLEAN, prefix \in KeyPrefixes \union {NoPrefix},
          stack \in [KeyStacks -> {"absent", "plain", "named"}] :
          fs = MakeFs(KeyFiles, KeyShapes(stack), KeyDocs(bucket, prefix, stack))
    /\ dirs = DirsTo(MaxDepth)
    /\ version = TOOL_VERSION

InitCalls ==
    /\ heap = <<Dict(<<>>), Dict(<<>>)>>
    /\ ret = [op |-> "init", status |-> "ok"]
    /\ reads = <<>>

Init == (InitMerge \/ InitNested) /\ InitCalls
InitV == InitVersion /\ InitCalls
InitT == InitTree /\ InitCalls
InitK == InitKey /\ InitCalls

(***************************************************************************)
(* The calls of the public API.  Each starts from the objects that outlive *)
(* a call (the default arguments): what an earlier call returned has been  *)
(* dropped by its caller.                                                  *)
(***************************************************************************)
Ticks == 0..MaxTick

\* what a call of read leaves behind
ReadReturns(r) ==
    /\ heap' = r.heap
    /\ ret' = [op |-> "read", status |-> r.status, rel_path |-> r.rel_path]
    /\ reads' = <<r>>
    /\ UNCHANGED <<fs, dirs, version>>

\* reader.read(rel_path)
Read(rel_path) == ReadReturns(read(Persistent(heap), rel_path, READ_DEFAULT))

\* reader.read(rel_path, seed), seed a dict the caller has just built
ReadSeeded(base_config, rel_path) ==
    ReadReturns(read(base_config.heap, rel_path, base_config.val.a))

ReadWith(rel_path, seed) == ReadSeeded(safe_load(Persistent(heap), seed), rel_path)

\* the clock readings a call may get: later than the last reading taken
ClockReadings ==
    IF ret.op = "construct_stack" /\ ret.status = "ok" /\ ret.stack.built
       /\ ret.stack.has_s3
    THEN {t \in Ticks : t > ret.stack.at}
    ELSE Ticks

\* the upload key the call before this one computed, for the caller to compare
NoUpload == [made |-> FALSE, rel_path |-> <<>>, bucket_key |-> <<>>, at |-> 0]
Uploads(r) == r.op = "construct_stack" /\ r.status = "ok" /\ r.stack.built /\ r.stack.has_s3
LastUpload ==
    IF Uploads(ret)
    THEN [made |-> TRUE, rel_path |-> ret.rel_path,
          bucket_key |-> ret.stack.bucket_key, at |-> ret.stack.at]
    ELSE NoUpload

StackReturns(s, rel_path) ==
    /\ heap' = s.heap
    /\ ret' = [op |-> "construct_stack", status |-> s.status,
               rel_path |-> rel_path, stack |-> s.stack,
               previous |-> LastUpload]
    /\ reads' = s.reads
    /\ UNCHANGED <<fs, dirs, version>>

\* whether construct_stack(rel_path) reads the clock
Stamped(probe) == probe.status = "ok" /\ probe.stack.built /\ probe.stack.has_s3

ConstructStackAt(probe, rel_path) ==
    IF Stamped(probe)
    THEN \E now \in ClockReadings :
            StackReturns(construct_stack(Persistent(heap), rel_path, now), rel_path)
    ELSE StackReturns(probe, rel_path)

\* reader.construct_stack(rel_path)
ConstructStack(rel_path) ==
    ConstructStackAt(construct_stack(Persistent(heap), rel_path, 0), rel_path)

\* reader._construct_stack(rel_path): the stack factory without a seed
ConstructStackUnseeded(rel_path) ==
    StackReturns(_construct_stack(Persistent(heap), rel_path, STACK_DEFAULT, 0), rel_path)

EnvironmentReturns(r, rel_path) ==
    /\ heap' = r.heap
    /\ ret' = [op |-> "construct_environment", status |-> r.status,
               rel_path |-> rel_path, environment |-> r.environment,
               mutated |-> 0]
    /\ reads' = r.reads
    /\ UNCHANGED <<fs, dirs, version>>

\* reader.construct_environment(rel_path)
ConstructEnvironment(rel_path, order) ==
    EnvironmentReturns(construct_environment(Persistent(heap), rel_path, order, 0),
                       rel_path)

\* every stack of an environment tree, the environment's own first
RECURSIVE AllStacks(_), StacksOfAll(_)
StacksOfAll(environments) ==
    IF environments = <<>> THEN <<>>
    ELSE AllStacks(Head(environments)) \o StacksOfAll(Tail(environments))

AllStacks(environment) == environment.stacks \o StacksOfAll(environment.environments)

\* the caller adds an entry to the parameters of the i-th stack it was given
MutateStack(stacks, i) ==
    /\ i \in 1..Len(stacks)
    /\ stacks[i].built
    /\ stacks[i].parameters.t = "ref"
    /\ heap' = [heap EXCEPT ![stacks[i].parameters.a].e =
                    SetItem(@, "added", Str(<<"by", "caller">>))]
    /\ ret' = [ret EXCEPT !.mutated = i]
    /\ UNCHANGED <<fs, dirs, version, reads>>

MutateParameters(i) ==
    /\ ret.op = "construct_environment"
    /\ ret.status = "ok"
    /\ ret.mutated = 0
    /\ MutateStack(AllStacks(ret.environment), i)

SeedK == <<Dict(<<Entry("K", Str(<<"K", "@", "seed">>)),
                  Entry("S", Ref(2))>>),
           List(<<Partial("K")>>)>>

SeedVersion == <<Dict(<<Entry("require_version", Str(<<"<=", "1", ".", "4">>))>>)>>

Orders == {"up", "down"}
MergePaths == {RelPath(d, base) : d \in 0..MaxDepth, base \in {CONFIG_YAML, VPC_YAML}}
StackPaths == {RelPath(d, VPC_YAML) : d \in 0..MaxDepth}
LeafPaths ==
    {RelPath(d, base) : d \in 0..1, base \in {CONFIG_YAML, VPC_YAML, DB_YAML, APPCONFIG_YAML}}
VersionPaths == {RelPath(d, base) : d \in 0..TreeDepth, base \in {CONFIG_YAML, VPC_YAML}}
KeyPaths == {RelPath(d, VPC_YAML) : d \in 0..1}

\* reads and single stacks, over projects that merge a key along the chain
Next ==
    \/ \E p \in MergePaths : Read(p)
    \/ \E p \in StackPaths : ReadWith(p, SeedK)
    \/ \E p \in StackPaths : ConstructStack(p)
    \/ \E p \in StackPaths : ConstructStackUnseeded(p)

Spec == Init /\ [][Next]_vars

\* every call, over projects that constrain the version
NextVersion ==
    \/ \E p \in VersionPaths : Read(p)
    \/ \E d \in 0..TreeDepth : ReadWith(RelPath(d, VPC_YAML), SeedVersion)
    \/ \E d \in 0..TreeDepth : ConstructStack(RelPath(d, VPC_YAML))
    \/ \E d \in 0..TreeDepth, order \in Orders : ConstructEnvironment(DirRel(d), order)

SpecVersion == InitV /\ [][NextVersion]_vars

\* whole environments, and callers that change the stacks they are given
NextTree ==
    \/ \E d \in 0..TreeDepth, order \in Orders : ConstructEnvironment(DirRel(d), order)
    \/ \E i \in 1..(3 * (TreeDepth + 1)) : MutateParameters(i)

SpecTree == InitT /\ [][NextTree]_vars

\* single stacks built again and again, and reads of leaf files
NextKey ==
    \/ \E p \in KeyPaths : ConstructStack(p)
    \/ \E p \in LeafPaths : Read(p)

SpecKey == InitK /\ [][NextKey]_vars

(***************************************************************************)
(* What the files say, for the statements about read.                      *)
(***************************************************************************)
Segments(rel_path) ==
    IF split(rel_path)[1] = <<>> THEN <<>> ELSE SplitOn(split(rel_path)[1], SEP)

\* the levels of the hierarchy above and at rel_path: 0 is the root
LevelsOf(rel_path) == 0..Len(Segments(rel_path))

\* the file named base at level i of the hierarchy of rel_path
ChainFile(rel_path, i, base) ==
    join(join(config_folder, joinSep([j \in 1..i |-> Segments(rel_path)[j]])), base)

Basename(rel_path) == split(rel_path)[2]

Defines(file, key) == file \in DOMAIN fs /\ fs[file] # <<>> /\ Has(fs[file][1].e, key)
Given(file, key) == Get(fs[file][1].e, key)
FileKeys == {"K", "P", "L", "require_version", "parameters", "stack_name"}

\* actual is what the value written in a file becomes in a returned config
Delivers(actual, written) ==
    CASE written.t = "partial" -> actual.t = "node" /\ actual.s[1] = written.s[1]
      [] written.t = "ref" -> actual.t = "ref"
      [] OTHER -> actual = written

Returned(r) == r.heap[r.config].e
OkReads == {i \in 1..Len(reads) : reads[i].status = "ok"}

\* the levels at which the file named base defines key, for the read r
LevelsDefining(r, base, key) ==
    {i \in LevelsOf(r.rel_path) : Defines(ChainFile(r.rel_path, i, base), key)}

Deepest(levels) == CHOOSE i \in levels : \A j \in levels : j <= i

(***************************************************************************)
(* C1 as stated: in the config a stack is built from, a key defined at     *)
(* two levels has the value of the deeper level, whichever file of that    *)
(* level (the stack's or config.yaml) defines it.                          *)
(***************************************************************************)
C1_DeeperLevelWinsAcrossFiles ==
    (ret.op = "construct_stack" /\ ret.status = "ok" /\ Len(reads) = 2) =>
        \A key \in FileKeys :
            LET r == reads[2]
                levels == LevelsDefining(r, Basename(r.rel_path), key)
                              \union LevelsDefining(r, CONFIG_YAML, key)
            IN Cardinality(levels) >= 2 =>
                  \E base \in {Basename(r.rel_path), CONFIG_YAML} :
                      /\ Defines(ChainFile(r.rel_path, Deepest(levels), base), key)
                      /\ Delivers(Get(Returned(r), key),
                                  Given(ChainFile(r.rel_path, Deepest(levels), base), key))

(***************************************************************************)
(* C1 as amended: in every config read returns, a key defined by files of  *)
(* the leaf's name has the value of the deepest of them; a key that none   *)
(* of them defines keeps the value the seed gave it.  So the stack's files *)
(* of every level override the config.yaml files of every level.           *)
(***************************************************************************)
C1_MergeOverride ==
    \A n \in OkReads : \A key \in FileKeys :
        LET r == reads[n]
            levels == LevelsDefining(r, Basename(r.rel_path), key)
        IN /\ levels # {} =>
                 /\ Has(Returned(r), key)
                 /\ Delivers(Get(Returned(r), key),
                             Given(ChainFile(r.rel_path, Deepest(levels),
                                             Basename(r.rel_path)), key))
           /\ (levels = {} /\ Has(r.base_before, key)) =>
                 /\ Has(Returned(r), key)
                 /\ Delivers(Get(Returned(r), key), Get(r.base_before, key))

\* a stack is built whose key K is defined by its own files at two levels
\* and by the environment's config too
C1_Witness ==
    /\ ret.op = "construct_stack" /\ ret.status = "ok" /\ Len(reads) = 2
    /\ Cardinality(LevelsDefining(reads[2], VPC_YAML, "K")) >= 2
    /\ Has(reads[2].base_before, "K")
    /\ Get(Returned(reads[2]), "K") # Get(reads[2].base_before, "K")

(***************************************************************************)
(* C8: a key defined at one ancestor level only reaches the returned       *)
(* config unchanged, across levels whose file is absent or empty.          *)
(***************************************************************************)
C8_MergeInheritance ==
    \A n \in OkReads : \A key \in FileKeys :
        LET r == reads[n]
            base == Basename(r.rel_path)
            levels == LevelsDefining(r, base, key)
        IN (Cardinality(levels) = 1 /\ Deepest(levels) < Len(Segments(r.rel_path))) =>
              /\ Has(Returned(r), key)
              /\ Delivers(Get(Returned(r), key),
                          Given(ChainFile(r.rel_path, Deepest(levels), base), key))

\* K comes from the root alone, the level between is absent or empty
C8_Witness ==
    \E n \in OkReads :
        LET r == reads[n]
            base == Basename(r.rel_path)
        IN /\ Len(Segments(r.rel_path)) = 2
           /\ LevelsDefining(r, base, "K") = {0}
           /\ \/ ChainFile(r.rel_path, 1, base) \notin DOMAIN fs
              \/ fs[ChainFile(r.rel_path, 1, base)] = <<>>
           /\ Get(Returned(r), "K") = Given(ChainFile(r.rel_path, 0, base), "K")

(***************************************************************************)
(* C2 as stated: every plugin node of the config a stack is built from     *)
(* has seen the values of that config, so a node inherited from the        *)
(* environment's config has seen the value the stack's file gives K.       *)
(***************************************************************************)
NodeKeys(e) == {i \in 1..Len(e) : e[i].val.t = "node"}

C2_NodesSeeTheStackConfig ==
    (ret.op = "construct_stack" /\ ret.status = "ok" /\ Len(reads) = 2) =>
        \A i \in NodeKeys(Returned(reads[2])) :
            Returned(reads[2])[i].val =
                node_class(Returned(reads[2])[i].val.s[1], reads[2].heap, reads[2].config)

(***************************************************************************)
(* C2 as amended: a plugin node is constructed by the read that finds it   *)
(* still unconstructed, with the fully merged config of that read: it sees *)
(* the deepest value of a key of that read's hierarchy.  A node the seed   *)
(* brings already constructed is delivered as the seed holds it.           *)
(***************************************************************************)
C2_DeferredResolutionContext ==
    \A n \in OkReads :
        LET r == reads[n]
        IN /\ \A c \in 1..Len(r.log) :
                 /\ r.log[c].keys = Keys(Returned(r))
                 /\ r.log[c].result = node_class(r.log[c].arg, r.heap, r.config)
           /\ \A i \in NodeKeys(r.base_before) :
                 Has(Returned(r), r.base_before[i].key) =>
                     \/ Get(Returned(r), r.base_before[i].key) = r.base_before[i].val
                     \/ LevelsDefining(r, Basename(r.rel_path), r.base_before[i].key) # {}

\* a stack inherits the node P of the environment's config: P has read the
\* K of the deepest config.yaml, and the stack's own file gives another K
C2_Witness ==
    /\ ret.op = "construct_stack" /\ ret.status = "ok" /\ Len(reads) = 2
    /\ Cardinality(LevelsDefining(reads[1], CONFIG_YAML, "K")) >= 2
    /\ LevelsDefining(reads[2], VPC_YAML, "K") # {}
    /\ Has(reads[2].base_before, "P")
    /\ Get(Returned(reads[2]), "P") = Get(reads[2].base_before, "P")
    /\ Get(Returned(reads[2]), "P") =
           Node("K", Given(ChainFile(reads[1].rel_path,
                                     Deepest(LevelsDefining(reads[1], CONFIG_YAML, "K")),
                                     CONFIG_YAML), "K").s)

(***************************************************************************)
(* C3 as stated: read fails when the leaf file is missing and its basename *)
(* is not exactly config.yaml, and succeeds on a missing config.yaml.      *)
(***************************************************************************)
LeafMissing(rel_path) == ~isfile(join(config_folder, rel_path))

C3_LeafExistence ==
    (ret.op = "read" /\ Len(reads) = 1 /\ LeafMissing(reads[1].rel_path)) =>
        IF Basename(reads[1].rel_path) = CONFIG_YAML
        THEN reads[1].status = "ok"
        ELSE reads[1].status = "Exception"

(***************************************************************************)
(* C4: a config read returns satisfies the version constraint it holds,    *)
(* wherever the constraint came from; a read that does not return a config *)
(* ends the call, and every stack built comes from a read that returned.   *)
(***************************************************************************)
Satisfied(e) ==
    Has(e, "require_version") =>
        /\ Get(e, "require_version").t = "s"
        /\ SpecifierSetContains(Get(e, "require_version").s, Version(version))

BuiltStacks ==
    CASE ret.op = "construct_stack" -> IF ret.stack.built THEN {ret.stack} ELSE {}
      [] ret.op = "construct_environment" ->
            {AllStacks(ret.environment)[i] :
                i \in {j \in 1..Len(AllStacks(ret.environment)) :
                          AllStacks(ret.environment)[j].built}}
      [] OTHER -> {}

C4_VersionGate ==
    /\ \A n \in 1..Len(reads) :
          IF reads[n].status = "ok" THEN Satisfied(Returned(reads[n]))
          ELSE n = Len(reads) /\ ret.status = reads[n].status
    /\ \A s \in BuiltStacks :
          \E n \in OkReads : reads[n].rel_path = s.rel_path

\* a stack built from a config whose constraint, merged from the files, holds
C4_Witness ==
    /\ ret.op = "construct_environment" /\ ret.status = "ok"
    /\ \E s \in BuiltStacks : \E n \in OkReads :
          /\ reads[n].rel_path = s.rel_path
          /\ Has(Returned(reads[n]), "require_version")
          /\ LevelsDefining(reads[n], VPC_YAML, "require_version") # {}

(***************************************************************************)
(* C5: the parameters (and tags) of the stacks of one environment tree     *)
(* share no object with each other nor with the config of an environment,  *)
(* so what a caller adds to one stack's parameters shows nowhere else.     *)
(***************************************************************************)
RECURSIVE Reach(_, _)
Reach(h, v) ==
    IF v.t # "ref" THEN {}
    ELSE {v.a} \union UNION {Reach(h, h[v.a].e[i].val) : i \in 1..Len(h[v.a].e)}

EnvironmentReads == {n \in OkReads : Basename(reads[n].rel_path) = CONFIG_YAML}
Owned(s) == Reach(heap, s.parameters) \union Reach(heap, s.tags)

\* the parameters a config holds, as far as they are reached through it
ParametersOf(config) ==
    IF Has(heap[config].e, "parameters") /\ Get(heap[config].e, "parameters").t = "ref"
    THEN heap[Get(heap[config].e, "parameters").a].e
    ELSE <<>>

C5_SiblingIsolation ==
    (ret.op = "construct_environment" /\ ret.status = "ok") =>
        LET stacks == AllStacks(ret.environment)
        IN /\ \A i, j \in 1..Len(stacks) :
                 i # j => Owned(stacks[i]) \intersect Owned(stacks[j]) = {}
           /\ \A i \in 1..Len(stacks) : \A n \in EnvironmentReads :
                 Owned(stacks[i]) \intersect Reach(heap, Ref(reads[n].config)) = {}
           /\ ret.mutated # 0 =>
                 /\ \A j \in 1..Len(stacks) :
                       (j # ret.mutated /\ stacks[j].parameters.t = "ref") =>
                           ~Has(heap[stacks[j].parameters.a].e, "added")
                 /\ \A n \in EnvironmentReads :
                       ~Has(ParametersOf(reads[n].config), "added")

\* the caller has changed the inherited parameters of one of two siblings
C5_Witness ==
    /\ ret.op = "construct_environment" /\ ret.status = "ok" /\ ret.mutated # 0
    /\ Len(ret.environment.stacks) >= 2
    /\ ret.mutated <= Len(ret.environment.stacks)
    /\ \E n \in EnvironmentReads : Has(ParametersOf(reads[n].config), "Size")
    /\ \A j \in 1..Len(ret.environment.stacks) :
          Has(heap[ret.environment.stacks[j].parameters.a].e, "Size")

(***************************************************************************)
(* C6 as stated: the tree construct_environment returns has one child      *)
(* environment per direct subdirectory and one stack per direct child file *)
(* other than config.yaml, and nothing else.                               *)
(***************************************************************************)
DirectoryOf(environment) == RStripSep(join(config_folder, environment.path))
ChildFiles(directory) ==
    {p \in DOMAIN fs : split(p)[1] = directory /\ split(p)[2] # CONFIG_YAML}
ChildDirs(directory) == {p \in dirs : p # directory /\ split(p)[1] = directory}

RECURSIVE Mirrors(_)
Mirrors(environment) ==
    /\ Len(environment.stacks) = Cardinality(ChildFiles(DirectoryOf(environment)))
    /\ \A i \in 1..Len(environment.stacks) : environment.stacks[i].built
    /\ {join(config_folder, environment.stacks[i].rel_path) :
           i \in 1..Len(environment.stacks)} = ChildFiles(DirectoryOf(environment))
    /\ Len(environment.environments) = Cardinality(ChildDirs(DirectoryOf(environment)))
    /\ {DirectoryOf(environment.environments[i]) :
           i \in 1..Len(environment.environments)} = ChildDirs(DirectoryOf(environment))
    /\ \A i \in 1..Len(environment.environments) : Mirrors(environment.environments[i])

C6_TreeShape ==
    (ret.op = "construct_environment" /\ ret.status = "ok") => Mirrors(ret.environment)

(***************************************************************************)
(* C7 as stated: two successive builds of one stack get different upload   *)
(* keys however little time passed, and every key begins with the stack's  *)
(* external name.                                                          *)
(***************************************************************************)
Rebuilt == Uploads(ret) /\ ret.previous.made /\ ret.previous.rel_path = ret.rel_path

C7_KeysAlwaysDifferAndBeginWithName ==
    Uploads(ret) =>
        /\ Rebuilt => ret.stack.bucket_key # ret.previous.bucket_key
        /\ StartsWith(ret.stack.bucket_key, ret.stack.external_name.s)

(***************************************************************************)
(* C7 as amended: two successive builds of one stack get different upload  *)
(* keys when the clock's microsecond differs between them; every key ends  *)
(* with <external name>/<timestamp>.json, begins with the external name    *)
(* when no prefix is configured and with the stripped prefix otherwise.    *)
(***************************************************************************)
\* the microsecond in which tick t falls
MicrosecondAt(t) == t \div TicksPerMicro

ConfiguredPrefix ==
    IF Has(Returned(reads[Len(reads)]), "template_key_prefix")
    THEN Get(Returned(reads[Len(reads)]), "template_key_prefix").s
    ELSE NoPrefix

C7_ArtifactKeyUniqueness ==
    Uploads(ret) =>
        /\ (Rebuilt /\ MicrosecondAt(ret.stack.at) # MicrosecondAt(ret.previous.at)) =>
               ret.stack.bucket_key # ret.previous.bucket_key
        /\ EndsWith(ret.stack.bucket_key,
                    ret.stack.external_name.s
                        \o <<SEP, strftime(MicrosecondAt(ret.stack.at)) \o ".json">>)
        /\ IF ConfiguredPrefix = NoPrefix
           THEN StartsWith(ret.stack.bucket_key, ret.stack.external_name.s)
           ELSE ret.stack.bucket_key =
                    strip(ConfiguredPrefix) \o <<SEP>> \o ret.stack.external_name.s
                        \o <<SEP, strftime(MicrosecondAt(ret.stack.at)) \o ".json">>

\* a stack under a prefix is built again, a microsecond or more later
C7_Witness ==
    /\ Rebuilt
    /\ MicrosecondAt(ret.stack.at) # MicrosecondAt(ret.previous.at)
    /\ ConfiguredPrefix = <<SEP, "p", SEP>>
    /\ ret.stack.bucket_key # ret.previous.bucket_key

(***************************************************************************)
(* C9: a read that returns has constructed every plugin node of the merged *)
(* config exactly once, in place, wherever it is nested, each with the     *)
(* merged config, and leaves none unconstructed.                           *)
(***************************************************************************)
Unconstructed(h, config) ==
    UNION {{<<a, i>> : i \in {j \in 1..Len(h[a].e) : h[a].e[j].val.t = "partial"}} :
              a \in Reach(h, Ref(config))}

C9_CompleteResolution ==
    \A n \in OkReads :
        LET r == reads[n]
        IN /\ {<<r.log[c].at, r.log[c].idx>> : c \in 1..Len(r.log)}
                  = Unconstructed(r.merged, r.config)
           /\ Len(r.log) = Cardinality(Unconstructed(r.merged, r.config))
           /\ Unconstructed(r.heap, r.config) = {}
           /\ Len(r.heap) = Len(r.merged)
           /\ \A c \in 1..Len(r.log) :
                 /\ r.merged[r.log[c].at].e[r.log[c].idx].val = Partial(r.log[c].arg)
                 /\ r.heap[r.log[c].at].e[r.log[c].idx].val = r.log[c].result
                 /\ r.log[c].result.t = "node"
                 /\ r.log[c].keys = Keys(r.merged[r.config].e)
           /\ \A a \in 1..Len(r.heap) : \A i \in 1..Len(r.merged[a].e) :
                 r.merged[a].e[i].val.t # "partial" => r.heap[a].e[i] = r.merged[a].e[i]

\* nodes at the top level, in a list, in a map in the list and in a list in
\* the list have all been constructed
C9_Witness ==
    \E n \in OkReads :
        /\ Len(reads[n].log) >= 4
        /\ \E c \in 1..Len(reads[n].log) : reads[n].log[c].at = reads[n].config
        /\ \E c, d \in 1..Len(reads[n].log) :
              /\ reads[n].merged[reads[n].log[c].at].t = "dict"
              /\ reads[n].log[c].at # reads[n].config
              /\ reads[n].merged[reads[n].log[d].at].t = "list"
              /\ \A i \in 1..Len(Returned(reads[n])) :
                    Returned(reads[n])[i].val # Ref(reads[n].log[d].at)

(***************************************************************************)
(* C10: read leaves the top-level entries of the seed it was given as they *)
(* were, a read without a seed starts from an empty one, and the dicts of  *)
(* the default arguments stay empty whatever was called before.            *)
(***************************************************************************)
C10_SeedNotShared ==
    /\ heap[READ_DEFAULT].e = <<>>
    /\ heap[STACK_DEFAULT].e = <<>>
    /\ \A n \in 1..Len(reads) :
          /\ reads[n].heap[reads[n].base_config].e = reads[n].base_before
          /\ reads[n].config # reads[n].base_config
          /\ reads[n].base_config \in {READ_DEFAULT, STACK_DEFAULT} =>
                 reads[n].base_before = <<>>

\* a read has overridden, in what it returns, the K of the seed it was given
C10_Witness ==
    /\ ret.op = "read" /\ ret.status = "ok" /\ Len(reads) = 1
    /\ reads[1].base_config # READ_DEFAULT
    /\ Has(reads[1].base_before, "K")
    /\ Get(Returned(reads[1]), "K") # Get(reads[1].base_before, "K")
    /\ Len(reads[1].log) > 0

====
